---- MODULE Spec2Model ----
(***************************************************************************)
(* Task-graph planner (TaskPlannerAgent) and execution supervisor          *)
(* (AgentOrchestrator) of byte-coder-ai-agent.                             *)
(*                                                                         *)
(* Two specifications share the variables:                                 *)
(*   SpecPlanner  one call of TaskPlannerAgent.execute on a bounded        *)
(*                planning input (the pure planner functions);             *)
(*   Spec         AgentOrchestrator.executeRequest: plan, run the graph,   *)
(*                recover recursively.                                     *)
(***************************************************************************)
EXTENDS Integers, Sequences, FiniteSets, TLC

VARIABLES
    input,       \* the TaskPlannerInput of the top-level call
    planResult,  \* AgentOutput<TaskPlannerResult> of the top-level planner call
    pc,          \* position of executeRequest: "start" | "running" | "done" ("planner" in SpecPlanner)
    stack,       \* activations of executeTaskGraph, innermost last
    exc,         \* the exception in flight, if any
    reply,       \* the string executeRequest resolves to
    last,        \* history: the latest call of executeSingleTask
    hist         \* history: what happened in the run so far

vars == <<input, planResult, pc, stack, exc, reply, last, hist>>

----------------------------------------------------------------------------
(* Bounds of the model *)

MaxTasks == 3       \* SpecPlanner: task objects in one synthesis response
MaxEdges == 2       \* SpecPlanner: dependency entries in one synthesis response
MaxSteps == 2       \* steps of a command-sequence request
MaxResources == 1   \* SpecPlanner: API resources of a scaffold request
MaxComponents == 1  \* SpecPlanner: component files of a scaffold request
MaxRunTasks == 2    \* Spec: task objects in one synthesis response
MaxRunEdges == 1    \* Spec: dependency entries in one synthesis response
MaxRecoveryTasks == 1   \* Spec: task objects in one synthesis response of a recovery
MaxRecoveryEdges == 1   \* Spec: dependency entries in one synthesis response of a recovery
MaxDepth == 2       \* Spec: nesting of recovery sub-graphs under the top-level graph

Ids == {"a", "b", "c"}      \* ids a synthesis response may use (SpecPlanner)
RunIds == {"a", "b"}        \* ids a synthesis response may use (Spec)
NoId == ""                  \* a task object without an id

----------------------------------------------------------------------------
(* Generic helpers *)

Range(s) == {s[i] : i \in 1..Len(s)}

Last(s) == s[Len(s)]

Min(x, y) == IF x < y THEN x ELSE y

\* Position of the first occurrence of x in s, 0 when absent (Array.indexOf + 1).
IndexOf(s, x) ==
    IF \E i \in 1..Len(s) : s[i] = x
    THEN CHOOSE i \in 1..Len(s) : s[i] = x /\ \A j \in 1..(i - 1) : s[j] # x
    ELSE 0

\* F applied to the value of v, v being evaluated once.
Bind(v, F(_)) == CHOOSE r \in {F(x) : x \in {v}} : TRUE

\* Sequences of k pairwise distinct elements of S.
DistinctSeqs(S, k) ==
    {s \in [1..k -> S] : \A i, j \in 1..k : i # j => s[i] # s[j]}

----------------------------------------------------------------------------
(* Task nodes *)

\* `task_${n}` (generateCommandSequenceTasks, parseTaskResponse)
PlainId(n) == "task_" \o ToString(n)

\* String(n).padStart(3, '0')
PadStart3(n) ==
    IF n < 10 THEN "00" \o ToString(n)
    ELSE IF n < 100 THEN "0" \o ToString(n)
    ELSE ToString(n)

\* createTask: the node; the caller advances taskIdCounter.
\* The retryCount of a node made by createTask, which sets none.
NoRetryCount == -1

\* Mutant: the id does not follow the counter.
CreateTaskSameId(counter, description, dependencies, validationCommand) ==
    [id |-> "task_" \o PadStart3(0),
     description |-> description,
     dependencies |-> dependencies,
     validationCommand |-> validationCommand,
     status |-> "pending",
     retryCount |-> NoRetryCount,
     command |-> "",
     type |-> ""]

CreateTask(counter, description, dependencies, validationCommand) ==
    [id |-> "task_" \o PadStart3(counter),
     description |-> description,
     dependencies |-> dependencies,
     validationCommand |-> validationCommand,
     status |-> "pending",
     retryCount |-> NoRetryCount,
     command |-> "",
     type |-> ""]

\* tasks.push(this.createTask(...)) on the planner state [tasks, counter].
Push(st, description, dependencies, validationCommand) ==
    [tasks |-> Append(st.tasks,
                      CreateTask(st.counter, description, dependencies, validationCommand)),
     counter |-> st.counter + 1]

EmptyPlan == [tasks |-> <<>>, counter |-> 0]

\* new Map(tasks.map(t => [t.id, t])): a later task replaces an earlier one of the same id.
TaskMapHas(tasks, id) == \E i \in 1..Len(tasks) : tasks[i].id = id

TaskMapGet(tasks, id) ==
    tasks[CHOOSE i \in 1..Len(tasks) :
            tasks[i].id = id /\ \A j \in (i + 1)..Len(tasks) : tasks[j].id # id]

NodeIds(tasks) == {tasks[i].id : i \in 1..Len(tasks)}

----------------------------------------------------------------------------
(* topologicalSort *)

SortStart == [result |-> <<>>, visited |-> {}, visiting |-> {}, err |-> FALSE]

RECURSIVE Visit(_, _, _)
RECURSIVE VisitDeps(_, _, _, _)

\* for (const dep of task.dependencies) visit(dep);  a throw ends the loop
VisitDeps(tasks, deps, i, st) ==
    IF i > Len(deps) \/ st.err THEN st
    ELSE Bind(Visit(tasks, deps[i], st), LAMBDA s : VisitDeps(tasks, deps, i + 1, s))

\* visiting.add(id); the loop over the dependencies of the node, if it is one
VisitEnter(tasks, id, st) ==
    IF TaskMapHas(tasks, id)
    THEN VisitDeps(tasks, TaskMapGet(tasks, id).dependencies, 1,
                   [st EXCEPT !.visiting = @ \cup {id}])
    ELSE [st EXCEPT !.visiting = @ \cup {id}]

\* visiting.delete(id); visited.add(id); result.push(id);
VisitLeave(id, st) ==
    IF st.err THEN st
    ELSE [st EXCEPT !.visiting = @ \ {id},
                    !.visited = @ \cup {id},
                    !.result = Append(@, id)]

\* Mutant: the node is pushed before its dependencies are visited.
VisitPreOrder(tasks, id, st) ==
    IF st.err \/ id \in st.visited THEN st
    ELSE IF id \in st.visiting THEN [st EXCEPT !.err = TRUE]
    ELSE Bind(VisitEnter(tasks, id, [st EXCEPT !.result = Append(@, id)]),
              LAMBDA s : IF s.err THEN s
                         ELSE [s EXCEPT !.visiting = @ \ {id}, !.visited = @ \cup {id}])

\* const visit = (id) => { ... }
Visit(tasks, id, st) ==
    IF st.err \/ id \in st.visited THEN st
    ELSE IF id \in st.visiting THEN [st EXCEPT !.err = TRUE]
    ELSE Bind(VisitEnter(tasks, id, st), LAMBDA s : VisitLeave(id, s))

RECURSIVE VisitAll(_, _, _)
\* for (const task of tasks) visit(task.id);
VisitAll(tasks, i, st) ==
    IF i > Len(tasks) \/ st.err THEN st
    ELSE Bind(Visit(tasks, tasks[i].id, st), LAMBDA s : VisitAll(tasks, i + 1, s))

\* The message of the Error thrown on a cycle, as the word list of its text.
CircularMessage == <<"Circular dependency detected">>

\* [err, result]: err when 'Circular dependency detected' was thrown, else the order.
TopologicalSort(tasks) ==
    Bind(VisitAll(tasks, 1, SortStart),
         LAMBDA st : [err |-> st.err, result |-> IF st.err THEN <<>> ELSE st.result])

----------------------------------------------------------------------------
(* identifyCriticalPath *)

\* What executionOrder[0] is for an empty order.
Undefined == "undefined"

\* distances.get(id) || 0
DistanceOf(distances, id) == IF id \in DOMAIN distances THEN distances[id] ELSE 0

RECURSIVE RelaxDeps(_, _, _, _)
\* for (const depId of task.dependencies) { newDist ...; if (newDist > ...) {...} }
\* on cp = [distances, predecessors], both functions on the ids they hold.
RelaxDeps(id, deps, j, cp) ==
    IF j > Len(deps) THEN cp
    ELSE Bind(IF DistanceOf(cp.distances, deps[j]) + 1 > DistanceOf(cp.distances, id)
              THEN [distances |-> [x \in DOMAIN cp.distances \cup {id} |->
                                      IF x = id THEN DistanceOf(cp.distances, deps[j]) + 1
                                      ELSE cp.distances[x]],
                    predecessors |-> [x \in DOMAIN cp.predecessors \cup {id} |->
                                         IF x = id THEN deps[j] ELSE cp.predecessors[x]]]
              ELSE cp,
              LAMBDA c : RelaxDeps(id, deps, j + 1, c))

RECURSIVE LongestPaths(_, _, _, _)
\* for (const id of executionOrder) { const task = taskMap.get(id); if (!task) continue; ... }
LongestPaths(tasks, executionOrder, i, cp) ==
    IF i > Len(executionOrder) THEN cp
    ELSE Bind(IF TaskMapHas(tasks, executionOrder[i])
              THEN RelaxDeps(executionOrder[i],
                             TaskMapGet(tasks, executionOrder[i]).dependencies, 1, cp)
              ELSE cp,
              LAMBDA c : LongestPaths(tasks, executionOrder, i + 1, c))

RECURSIVE EndTask(_, _, _, _, _)
\* for (const [id, dist] of distances) if (dist > maxDist) {...}: the Map
\* iterates in insertion order, which is the execution order.
EndTask(distances, executionOrder, i, maxDist, endTask) ==
    IF i > Len(executionOrder) THEN endTask
    ELSE IF distances[executionOrder[i]] > maxDist
         THEN EndTask(distances, executionOrder, i + 1,
                      distances[executionOrder[i]], executionOrder[i])
         ELSE EndTask(distances, executionOrder, i + 1, maxDist, endTask)

RECURSIVE ReconstructPath(_, _, _)
\* while (predecessors.has(current)) { current = ...; path.unshift(current); }
ReconstructPath(predecessors, current, path) ==
    IF current \in DOMAIN predecessors
    THEN ReconstructPath(predecessors, predecessors[current],
                         <<predecessors[current]>> \o path)
    ELSE path

IdentifyCriticalPath(tasks, executionOrder) ==
    Bind(LongestPaths(tasks, executionOrder, 1,
                      [distances |-> [x \in Range(executionOrder) |-> 0],
                       predecessors |-> [x \in {} |-> ""]]),
         LAMBDA cp :
            Bind(EndTask(cp.distances, executionOrder, 1, 0,
                         IF Len(executionOrder) > 0 THEN executionOrder[1] ELSE Undefined),
                 LAMBDA endTask : ReconstructPath(cp.predecessors, endTask, <<endTask>>)))

----------------------------------------------------------------------------
(* Planning inputs.  The request text is represented by what the planner      *)
(* derives from it: the strategy detectTaskType picks, the steps a command    *)
(* sequence splits into, the text the synthesis call answers, and the parts   *)
(* of fileStructure / interfaces / apiEndpoints the scaffold template reads.  *)

NoSynth == [kind |-> "none", tasks |-> <<>>]

BaseInput ==
    [strategy |-> "generic", steps |-> <<>>, synth |-> NoSynth,
     folders |-> FALSE, interfaces |-> FALSE, nResources |-> 0,
     nComponents |-> 0, runOnly |-> FALSE]

\* The branches of the step-to-command inference of generateCommandSequenceTasks.
StepKinds == {"clone_url", "clone", "install", "commit", "push", "curl", "run", "other"}
RunStepKinds == {"install", "other"}

\* The type / command pairs of a synthesized task object: a code task without
\* a command, or a command task carrying its shell command.
CodeShape == [type |-> "code", command |-> ""]
CommandShape == [type |-> "command", command |-> "cmd"]

\* The dependency lists of one task object: up to e distinct ids.
DepSeqs(depIds, e) ==
    UNION {DistinctSeqs(depIds, k) : k \in 0..Min(e, Cardinality(depIds))}

RECURSIVE SumLen(_, _)
\* The dependency entries of the first i task objects.
SumLen(deps, i) == IF i = 0 THEN 0 ELSE Len(deps[i]) + SumLen(deps, i - 1)

\* Synthesis arrays of exactly len task objects {id, dependencies, type, command}
\* with at most e dependency entries in all.
RawListsLen(len, e, idChoices, depIds, shapes) ==
    {[i \in 1..len |-> [id |-> ids[i], dependencies |-> deps[i],
                        type |-> sh[i].type, command |-> sh[i].command]] :
        ids \in [1..len -> idChoices],
        deps \in {d \in [1..len -> DepSeqs(depIds, e)] : SumLen(d, len) <= e},
        sh \in [1..len -> shapes]}

\* What streamResponse resolves to when it gives no task array: it rejects,
\* its text holds no [...] span, or the span is not JSON.
FailedSynth == {[kind |-> k, tasks |-> <<>>] : k \in {"reject", "nomatch", "badjson"}}

\* ... or the span is a JSON array of len task objects.
ArraySynth(len, e, idChoices, depIds, shapes) ==
    {[kind |-> "array", tasks |-> r] : r \in RawListsLen(len, e, idChoices, depIds, shapes)}

StepSeqs(kinds, n) == UNION {[1..k -> kinds] : k \in 0..n}

TemplateInputs(kinds) ==
    {[BaseInput EXCEPT !.strategy = "stress_test"],
     [BaseInput EXCEPT !.strategy = "simple_modification"]}
    \cup {[BaseInput EXCEPT !.strategy = "script_execution", !.runOnly = r] : r \in BOOLEAN}
    \cup {[BaseInput EXCEPT !.strategy = "command_sequence", !.steps = s] :
            s \in StepSeqs(kinds, MaxSteps)}

\* The requests routed to external synthesis, by what the synthesis answers.
SynthInputs(responses) ==
    {[BaseInput EXCEPT !.strategy = g, !.synth = r] :
        g \in {"generic", "complex_modification"}, r \in responses}

ScaffoldInputs ==
    {[BaseInput EXCEPT !.strategy = "scaffold", !.folders = f, !.interfaces = i,
                       !.nResources = r, !.nComponents = c] :
        f \in BOOLEAN, i \in BOOLEAN, r \in 0..MaxResources, c \in 0..MaxComponents}

\* SpecPlanner: any TaskPlannerInput whose synthesis array has len task objects.
PlanInputs(len) ==
    TemplateInputs(StepKinds) \cup ScaffoldInputs \cup SynthInputs(FailedSynth)
    \cup SynthInputs(ArraySynth(len, MaxEdges, Ids \cup {NoId}, Ids, {CodeShape}))

\* executeRequest passes interfaces: [], no apiEndpoints, and the names readdir
\* gives as fileStructure (no '/' in them): the scaffold template has one shape.
RequestInputs(len) ==
    TemplateInputs(RunStepKinds)
    \cup {[BaseInput EXCEPT !.strategy = "scaffold"]}
    \cup SynthInputs(FailedSynth)
    \cup SynthInputs(ArraySynth(len, MaxRunEdges, RunIds \cup {NoId}, RunIds,
                                {CodeShape, CommandShape}))

\* The synthesis answers to the query of a recovery.
RecoverySynth ==
    FailedSynth
    \cup UNION {ArraySynth(len, MaxRecoveryEdges, RunIds \cup {NoId}, RunIds,
                           {CodeShape, CommandShape}) : len \in 0..MaxRecoveryTasks}
    \cup ArraySynth(MaxRecoveryTasks + 1, MaxRecoveryEdges, RunIds, RunIds, {CodeShape})

\* The descriptions of the stress-test template that hold 'stress test'.
StressDescriptions ==
    {"Prepare Stress Test Environment", "Implement Stress Test Logic (Loop/Timer)",
     "Run Stress Test (High Duration)"}

\* The recovery query holds the description of the failed task and the query
\* of the request: the keywords that made detectTaskType pick stress_test, or
\* complex_modification, for the request are found in it again, and so is
\* 'stress test' in the description of a stress-test task.
RecoveryStrategies(task) ==
    IF input.strategy = "stress_test" \/ task.description \in StressDescriptions
    THEN {"stress_test"}
    ELSE IF input.strategy = "complex_modification"
    THEN {"stress_test", "complex_modification"}
    ELSE {"stress_test", "complex_modification", "simple_modification",
          "command_sequence", "script_execution", "generic"}

\* attemptRecovery passes projectType 'recovery' and fileStructure: [] :
\* no scaffold (fileStructure.length > 2) and no run-only script.
AllRecoveryInputs ==
    {i \in TemplateInputs(RunStepKinds) \cup SynthInputs(RecoverySynth) : ~i.runOnly}

RecoveryInputs(task) ==
    {i \in AllRecoveryInputs : i.strategy \in RecoveryStrategies(task)}

----------------------------------------------------------------------------
(* Graph Builder: the generation strategies of TaskPlannerAgent *)

DetectTaskType(in) == in.strategy

GenerateStressTestTasks ==
    LET s1 == Push(EmptyPlan, "Prepare Stress Test Environment", <<>>, "")
        s2 == Push(s1, "Implement Stress Test Logic (Loop/Timer)", <<s1.tasks[1].id>>,
                   "npx ts-node --check stress_test_runner.ts")
        s3 == Push(s2, "Run Stress Test (High Duration)", <<s2.tasks[2].id>>,
                   "npx ts-node stress_test_runner.ts")
    IN Push(s3, "Analyze Test Results & Logs", <<s3.tasks[3].id>>, "")

GenerateSimpleModificationTasks ==
    Push(EmptyPlan, "query", <<>>, "")

\* st is the planner state at the call: the fallback of the synthesis
\* strategies runs on the counter parseTaskResponse left.
GenerateGenericTasks(st) ==
    LET s0 == [tasks |-> <<>>, counter |-> st.counter]
        s1 == Push(s0, "Analyze Context & Requirements", <<>>, "")
        s2 == Push(s1, "Plan Implementation Details", <<s1.tasks[1].id>>, "")
        s3 == Push(s2, "Execute Changes", <<s2.tasks[2].id>>, "")
    IN Push(s3, "Verify & Validate", <<s3.tasks[3].id>>, "npm test")

GenerateScriptTasks(in) ==
    LET s1 == IF ~in.runOnly
              THEN Push(EmptyPlan, "Create script", <<>>, "")
              ELSE EmptyPlan
        deps == IF Len(s1.tasks) > 0 THEN <<s1.tasks[1].id>> ELSE <<>>
    IN Push(s1, "Run script and report result", deps, "python3 script.py")

\* validationCommand the step's branch sets ("" when it sets none).
StepValidation(kind) ==
    CASE kind = "clone_url" -> "test -d repo"
      [] kind = "install"   -> "npm list --depth=0"
      [] kind = "commit"    -> "git log -1 --oneline"
      [] kind = "push"      -> "git status"
      [] OTHER              -> ""

StepCommand(kind) ==
    CASE kind = "clone_url" -> "git clone url"
      [] kind = "clone"     -> "git clone <repo_url>"
      [] kind = "install"   -> "npm install"
      [] kind = "commit"    -> "git add . && git commit -m msg"
      [] kind = "push"      -> "git push"
      [] kind = "curl"      -> "curl <url>"
      [] OTHER              -> "step"

RECURSIVE CommandSequenceLoop(_, _, _, _)
\* steps.forEach(...): one node per step, chained on previousTaskId.
CommandSequenceLoop(steps, i, st, previousTaskId) ==
    IF i > Len(steps) THEN st
    ELSE LET taskId == PlainId(st.counter)
             node == [id |-> taskId,
                      description |-> "step",
                      dependencies |-> IF previousTaskId # "" THEN <<previousTaskId>> ELSE <<>>,
                      validationCommand |-> StepValidation(steps[i]),
                      status |-> "pending",
                      retryCount |-> 0,
                      command |-> StepCommand(steps[i]),
                      type |-> "command"]
         IN Bind([tasks |-> Append(st.tasks, node), counter |-> st.counter + 1],
                 LAMBDA s : CommandSequenceLoop(steps, i + 1, s, taskId))

GenerateCommandSequenceTasks(in) ==
    CommandSequenceLoop(in.steps, 1, EmptyPlan, "")

\* .slice(0, 5) of the component files
MaxComponentTasks == 5

RECURSIVE PushChain(_, _, _, _)
\* n nodes, each depending on tasks[tasks.length - 1]
PushChain(st, n, description, validationCommand) ==
    IF n = 0 THEN st
    ELSE Bind(Push(st, description, <<Last(st.tasks).id>>, validationCommand),
              LAMBDA s : PushChain(s, n - 1, description, validationCommand))

GenerateScaffoldTasks(in) ==
    LET s1 == Push(EmptyPlan, "Initialize project with package.json", <<>>, "npm init -y")
        s2 == Push(s1, "Install dependencies", <<s1.tasks[1].id>>, "npm install")
        s3 == Push(s2, "Configure TypeScript", <<s2.tasks[1].id>>, "npx tsc --init")
        s4 == IF in.folders
              THEN Push(s3, "Create directory structure", <<s3.tasks[1].id>>, "mkdir -p")
              ELSE s3
        s5 == IF in.interfaces
              THEN Push(s4, "Create type definitions", <<s4.tasks[3].id>>, "npm run typecheck")
              ELSE s4
        s6 == IF in.nResources > 0
              THEN PushChain(Push(s5, "Create API router setup", <<Last(s5.tasks).id>>, ""),
                             in.nResources, "Implement routes", "curl")
              ELSE s5
        typesTaskId ==
              IF \E i \in 1..Len(s6.tasks) : s6.tasks[i].description = "Create type definitions"
              THEN s6.tasks[CHOOSE i \in 1..Len(s6.tasks) :
                        s6.tasks[i].description = "Create type definitions"].id
              ELSE s6.tasks[1].id
        s7 == IF in.nComponents > 0
              THEN PushChain(Push(s6, "Create base UI components", <<typesTaskId>>, ""),
                             Min(in.nComponents, MaxComponentTasks),
                             "Implement component", "")
              ELSE s6
        s8 == Push(s7, "Setup testing framework", <<s7.tasks[2].id>>,
                   "npm install -D jest ts-jest @types/jest")
    IN Push(s8, "Write initial tests", <<Last(s8.tasks).id>>, "npm run test")

RECURSIVE ParseMap(_, _, _)
\* tasks.map(t => ({id: t.id || `task_${this.taskIdCounter++}`, description,
\* dependencies, type, command})): no validationCommand is copied.
ParseMap(raw, i, st) ==
    IF i > Len(raw) THEN st
    ELSE LET hasId == raw[i].id # NoId
             node == [id |-> IF hasId THEN raw[i].id ELSE PlainId(st.counter),
                      description |-> "d",
                      dependencies |-> raw[i].dependencies,
                      validationCommand |-> "",
                      status |-> "pending",
                      retryCount |-> 0,
                      command |-> raw[i].command,
                      type |-> raw[i].type]
         IN Bind([tasks |-> Append(st.tasks, node),
                  counter |-> IF hasId THEN st.counter ELSE st.counter + 1],
                 LAMBDA s : ParseMap(raw, i + 1, s))

\* parseTaskResponse: [] when no [...] span matches or JSON.parse throws.
ParseTaskResponse(response, st) ==
    IF response.kind = "array"
    THEN ParseMap(response.tasks, 1, [tasks |-> <<>>, counter |-> st.counter])
    ELSE [tasks |-> <<>>, counter |-> st.counter]

\* Mutant: an empty parse result is returned as the plan (no fallback).
GenerateDynamicTasksNoFallback(in) ==
    IF in.synth.kind = "reject" THEN GenerateGenericTasks(EmptyPlan)
    ELSE ParseTaskResponse(in.synth, EmptyPlan)

\* generateDynamicTasks / generateComplexModificationTasks (the same body):
\* the parsed tasks when there are any, else generateGenericTasks.
GenerateDynamicTasks(in) ==
    IF in.synth.kind = "reject" THEN GenerateGenericTasks(EmptyPlan)
    ELSE Bind(ParseTaskResponse(in.synth, EmptyPlan),
              LAMBDA parsed : IF Len(parsed.tasks) > 0 THEN parsed
                              ELSE GenerateGenericTasks(parsed))

GenerateTaskGraph(in) ==
    LET taskType == DetectTaskType(in)
        st == CASE taskType = "stress_test" -> GenerateStressTestTasks
                []  taskType = "simple_modification" -> GenerateSimpleModificationTasks
                []  taskType = "complex_modification" -> GenerateDynamicTasks(in)
                []  taskType = "command_sequence" -> GenerateCommandSequenceTasks(in)
                []  taskType = "script_execution" -> GenerateScriptTasks(in)
                []  taskType = "scaffold" -> GenerateScaffoldTasks(in)
                []  OTHER -> GenerateDynamicTasks(in)
    IN st.tasks

----------------------------------------------------------------------------
(* TaskPlannerAgent.execute *)

NoOutput == [status |-> "none", payload |-> FALSE, taskGraph |-> <<>>,
             executionOrder |-> <<>>, criticalPath |-> <<>>, error |-> <<>>]

\* BaseAgent.createOutput('success', result, ...)
CreateOutput(taskGraph, executionOrder, criticalPath) ==
    [status |-> "success", payload |-> TRUE, taskGraph |-> taskGraph,
     executionOrder |-> executionOrder, criticalPath |-> criticalPath, error |-> <<>>]

\* BaseAgent.handleError(error, startTime): a failed output carrying the message
HandleError(message) ==
    [status |-> "failed", payload |-> FALSE, taskGraph |-> <<>>,
     executionOrder |-> <<>>, criticalPath |-> <<>>, error |-> message]

\* Mutant: a cycle report is dropped and the task list is planned as it is.
ExecuteCycleIgnored(in) ==
    Bind(GenerateTaskGraph(in),
         LAMBDA taskGraph :
            Bind(TopologicalSort(taskGraph),
                 LAMBDA sorted : CreateOutput(taskGraph, sorted.result, <<>>)))

Execute(in) ==
    Bind(GenerateTaskGraph(in),
         LAMBDA taskGraph :
            Bind(TopologicalSort(taskGraph),
                 LAMBDA sorted : IF sorted.err THEN HandleError(CircularMessage)
                                 ELSE CreateOutput(taskGraph, sorted.result,
                                                   IdentifyCriticalPath(taskGraph,
                                                                        sorted.result))))

----------------------------------------------------------------------------
(* Execution capabilities, at their result contract *)

\* ExecutorAgent.execute resolves to an AgentOutput: status, and a payload with
\* the exit code when the command ran.
ExecResults ==
    {[status |-> "success", payload |-> TRUE, exitCode |-> 0],
     [status |-> "success", payload |-> TRUE, exitCode |-> 1],
     [status |-> "failed", payload |-> TRUE, exitCode |-> 1],
     [status |-> "failed", payload |-> FALSE, exitCode |-> 0]}

NoResult == [status |-> "none", payload |-> FALSE, exitCode |-> 0]

----------------------------------------------------------------------------
(* AgentOrchestrator *)

NoExc == [thrown |-> FALSE, message |-> <<>>]

Throw(message) == [thrown |-> TRUE, message |-> message]

NoLast ==
    [dispatched |-> FALSE, depth |-> 0, id |-> "", index |-> 0,
     primaryCommand |-> "", primary |-> NoResult,
     validationCommand |-> "", validation |-> NoResult]

NoCall == [id |-> "", error |-> <<>>, query |-> "",
           cycle |-> FALSE, status |-> "none", size |-> 0]

InitHist ==
    [ev |-> "init", nFail |-> 0, nRecovered |-> 0, topFailed |-> "", call |-> NoCall,
     unmet |-> FALSE, cancel |-> FALSE]

\* A saturating count: 0, 1, many.
Count(n) == IF n = 0 THEN 1 ELSE 2

\* The query of the request, handed down unchanged as originalQuery / contextQuery.
Query == "query"

\* The locals of one executeTaskGraph activation: tasks, the loop position i,
\* completedTasks; in phase "catch" the activation is in the catch block of
\* task i, error being the message of the caught Error.
NewFrame(tasks) ==
    [tasks |-> tasks, i |-> 1, completedTasks |-> {}, phase |-> "loop", error |-> <<>>]

Top == stack[Len(stack)]

Pop == SubSeq(stack, 1, Len(stack) - 1)

ReplaceTop(f) == [stack EXCEPT ![Len(stack)] = f]

\* Mutant: the dependency check finds nothing pending.
PendingDepsNone(task, completedTasks, tasks) == <<>>

\* task.dependencies.filter(d => !completedTasks.has(d) && taskMap.has(d))
PendingDeps(task, completedTasks, tasks) ==
    SelectSeq(task.dependencies,
              LAMBDA d : d \notin completedTasks /\ TaskMapHas(tasks, d))

\* The texts of the Errors, as word lists: literal parts and interpolated values.
DependencyUnmetMessage(task, pendingDeps) ==
    <<"Task", task.id, task.description, "cannot start because dependencies">>
    \o pendingDeps \o <<"are not complete.">>

ValidationMessage(task) ==
    <<"Validation failed for task", task.id, "stderr">>

TaskFailedMessage(task, error) ==
    <<"Task", task.id, "failed and recovery was unsuccessful:">> \o error

\* const commandToRun = task.command || (task.type === 'command' ? task.description : null);
\* the Executor branch runs it, or else the validationCommand, or nothing.
\* (No strategy of the planner sets assignedAgent: agentName is 'Executor'.)
PrimaryCommand(task) ==
    IF task.command # "" THEN task.command
    ELSE IF task.type = "command" /\ task.description # "" THEN task.description
    ELSE task.validationCommand

\* Mutant: only a failed status counts, the exit code is not read.
ValidationFailedStatusOnly(validation) == validation.status = "failed"

\* validation.status === 'failed' || (validation.payload && validation.payload.exitCode !== 0)
ValidationFailed(validation) ==
    validation.status = "failed" \/ (validation.payload /\ validation.exitCode # 0)

\* Mutant: an empty task graph is accepted.
PlanUsableAnyLength(out) == out.status = "success" /\ out.payload

\* !(planResult.status !== 'success' || !planResult.payload || taskGraph.length === 0)
PlanUsable(out) ==
    out.status = "success" /\ out.payload /\ Len(out.taskGraph) # 0

\* Mutant: a recovery plan without tasks is run like any other.
RecoveryPlanUsableAnyLength(out) == out.status = "success" /\ out.payload

\* recoveryPlan.status === 'success' && recoveryPlan.payload && taskGraph.length > 0
RecoveryPlanUsable(out) ==
    out.status = "success" /\ out.payload /\ Len(out.taskGraph) > 0

\* Mutant: the catch block of attemptRecovery reports the recovery as done.
RecoveryCatchReturnTrue == TRUE

\* catch (e) { console.error('Recovery failed:', e); return false; }
RecoveryCatchReturn == FALSE

SuccessReply == <<"Request completed successfully.">>

PlanFailedReply(out) ==
    <<"Failed to generate a valid plan. Error:">>
    \o (IF out.error # <<>> THEN out.error ELSE <<"Unknown planning error">>)

ExecutionFailedReply(message) == <<"Execution failed:">> \o message

\* Mutant: the recovered task is not added to completedTasks.
RecoveredNoMark(f) ==
    [f EXCEPT !.i = @ + 1, !.phase = "loop", !.error = <<>>]

\* Mutant: after a recovery that worked the task is still taken as failed and
\* recovered once more.
RecoveredRetry(f) ==
    [f EXCEPT !.completedTasks = @ \cup {f.tasks[f.i].id}]

\* Mutant: a recovery that worked marks every task of the graph as completed.
RecoveredMarksAll(f) ==
    [f EXCEPT !.completedTasks = @ \cup NodeIds(f.tasks),
              !.i = @ + 1, !.phase = "loop", !.error = <<>>]

\* The parent activation after attemptRecovery returned true:
\* completedTasks.add(task.id), and the loop moves on.
Recovered(f) ==
    [f EXCEPT !.completedTasks = @ \cup {f.tasks[f.i].id},
              !.i = @ + 1, !.phase = "loop", !.error = <<>>]

\* executeRequest up to the call of executeTaskGraph.
Plan ==
    /\ pc = "start"
    /\ \E out \in {Execute(input)} :
          /\ planResult' = out
          /\ IF PlanUsable(out)
             THEN /\ stack' = <<NewFrame(out.taskGraph)>>
                  /\ pc' = "running"
                  /\ reply' = reply
             ELSE /\ stack' = stack
                  /\ pc' = "done"
                  /\ reply' = PlanFailedReply(out)
    /\ hist' = [hist EXCEPT !.ev = "plan"]
    /\ UNCHANGED <<input, exc, last>>

\* One iteration of the loop of executeTaskGraph up to the end of
\* executeSingleTask: the dependency check, the task's command, its validation.
Dispatch ==
    /\ pc = "running" /\ ~exc.thrown
    /\ Top.phase = "loop" /\ Top.i <= Len(Top.tasks)
    /\ LET f == Top
           task == f.tasks[f.i]
           pendingDeps == PendingDeps(task, f.completedTasks, f.tasks)
       IN IF Len(pendingDeps) > 0
          THEN /\ exc' = Throw(DependencyUnmetMessage(task, pendingDeps))
               /\ hist' = [hist EXCEPT !.ev = "unmet", !.unmet = TRUE]
               /\ UNCHANGED <<stack, last>>
          ELSE \E primary \in (IF PrimaryCommand(task) # "" THEN ExecResults ELSE {NoResult}),
                  validation \in (IF task.validationCommand # "" THEN ExecResults ELSE {NoResult}) :
               LET failed == task.validationCommand # "" /\ ValidationFailed(validation)
               IN /\ last' = [dispatched |-> TRUE, depth |-> Len(stack), id |-> task.id,
                              index |-> f.i,
                              primaryCommand |-> PrimaryCommand(task), primary |-> primary,
                              validationCommand |-> task.validationCommand,
                              validation |-> validation]
                  /\ stack' = IF failed
                              THEN ReplaceTop([f EXCEPT !.phase = "catch",
                                                        !.error = ValidationMessage(task)])
                              ELSE ReplaceTop([f EXCEPT !.completedTasks = @ \cup {task.id},
                                                        !.i = @ + 1])
                  /\ hist' = [hist EXCEPT !.ev = "dispatch",
                                          !.nFail = IF failed THEN Count(@) ELSE @]
                  /\ exc' = exc
    /\ UNCHANGED <<input, planResult, pc, reply>>

\* attemptRecovery up to the call of executeTaskGraph on the recovery plan, or
\* to its return false and the throw of executeTaskGraph that follows it.
\* const recoveryPlanResult = await this.taskPlanner.execute({...}): the
\* planner is a function of its input, tabulated once over the recovery inputs.
RecoveryPlanResult == [rq \in AllRecoveryInputs |-> Execute(rq)]

\* Whether topologicalSort threw inside that call of the planner.
RecoveryPlanCycle == [rq \in AllRecoveryInputs |-> TopologicalSort(GenerateTaskGraph(rq)).err]

AttemptRecovery ==
    /\ pc = "running" /\ ~exc.thrown
    /\ Top.phase = "catch"
    /\ LET f == Top
           task == f.tasks[f.i]
       IN \E rq \in RecoveryInputs(task) : \E out \in {RecoveryPlanResult[rq]} :
            /\ RecoveryPlanUsable(out) => Len(stack) <= MaxDepth
            /\ hist' = [hist EXCEPT !.ev = "recover",
                                    !.call = [id |-> task.id, error |-> f.error,
                                              query |-> Query,
                                              cycle |-> RecoveryPlanCycle[rq],
                                              status |-> out.status,
                                              size |-> Len(out.taskGraph)]]
            /\ IF RecoveryPlanUsable(out)
               THEN /\ stack' = Append(stack, NewFrame(out.taskGraph))
                    /\ exc' = exc
               ELSE /\ stack' = stack
                    /\ exc' = Throw(TaskFailedMessage(task, f.error))
    /\ UNCHANGED <<input, planResult, pc, reply, last>>

\* The loop of an executeTaskGraph activation ends: the recovery sub-graph's
\* caller gets true and marks its task; the top-level caller replies.
Return ==
    /\ pc = "running" /\ ~exc.thrown
    /\ Top.phase = "loop" /\ Top.i > Len(Top.tasks)
    /\ IF Len(stack) = 1
       THEN /\ stack' = <<>>
            /\ pc' = "done"
            /\ reply' = SuccessReply
            /\ hist' = [hist EXCEPT !.ev = "return"]
       ELSE /\ stack' = [Pop EXCEPT ![Len(stack) - 1] = Recovered(@)]
            /\ hist' = [hist EXCEPT !.ev = "return", !.nRecovered = Count(@)]
            /\ UNCHANGED <<pc, reply>>
    /\ UNCHANGED <<input, planResult, exc, last>>

\* An Error leaves an executeTaskGraph activation: the catch of attemptRecovery
\* (return false, after which the caller throws for its own task), or the
\* catch of executeRequest.
Propagate ==
    /\ pc = "running" /\ exc.thrown
    /\ IF Len(stack) = 1
       THEN /\ stack' = <<>>
            /\ pc' = "done"
            /\ reply' = ExecutionFailedReply(exc.message)
            /\ exc' = NoExc
            /\ hist' = [hist EXCEPT !.ev = "catch"]
       ELSE LET parent == stack[Len(stack) - 1]
                task == parent.tasks[parent.i]
            IN /\ IF RecoveryCatchReturn
                  THEN /\ stack' = [Pop EXCEPT ![Len(stack) - 1] = Recovered(@)]
                       /\ exc' = NoExc
                  ELSE /\ stack' = Pop
                       /\ exc' = Throw(TaskFailedMessage(task, parent.error))
               /\ hist' = [hist EXCEPT !.ev = "catch",
                                       !.topFailed = IF Len(stack) = 2 THEN task.id ELSE @]
               /\ UNCHANGED <<pc, reply>>
    /\ UNCHANGED <<input, planResult, last>>

Init ==
    /\ \E len \in 0..MaxRunTasks : input \in RequestInputs(len)
    /\ planResult = NoOutput
    /\ pc = "start"
    /\ stack = <<>>
    /\ exc = NoExc
    /\ reply = <<>>
    /\ last = NoLast
    /\ hist = InitHist

Next == Plan \/ Dispatch \/ AttemptRecovery \/ Return \/ Propagate

Spec == Init /\ [][Next]_vars

----------------------------------------------------------------------------
(* A run whose caller may ask for cancellation *)

\* The caller asks for the run to be cancelled.  executeRequest takes
\* (query, activeFilePath) and no cancellation token, and no statement of the
\* orchestrator reads such a request: it changes nothing but the history.
RequestCancel ==
    /\ pc = "running" /\ ~hist.cancel
    /\ hist' = [hist EXCEPT !.cancel = TRUE]
    /\ UNCHANGED <<input, planResult, pc, stack, exc, reply, last>>

InitCancel ==
    /\ input \in {i \in TemplateInputs(RunStepKinds) : i.strategy = "command_sequence"}
    /\ planResult = NoOutput
    /\ pc = "start"
    /\ stack = <<>>
    /\ exc = NoExc
    /\ reply = <<>>
    /\ last = NoLast
    /\ hist = InitHist

NextCancel == Plan \/ Dispatch \/ AttemptRecovery \/ Return \/ Propagate \/ RequestCancel

SpecCancel == InitCancel /\ [][NextCancel]_vars

----------------------------------------------------------------------------
(* One call of TaskPlannerAgent.execute *)

InitPlanner ==
    /\ \E len \in 0..MaxTasks : input \in PlanInputs(len)
    /\ planResult = NoOutput
    /\ pc = "planner"
    /\ stack = <<>>
    /\ exc = NoExc
    /\ reply = <<>>
    /\ last = NoLast
    /\ hist = InitHist

PlannerExecute ==
    /\ pc = "planner"
    /\ planResult' = Execute(input)
    /\ pc' = "planned"
    /\ UNCHANGED <<input, stack, exc, reply, last, hist>>

NextPlanner == PlannerExecute

SpecPlanner == InitPlanner /\ [][NextPlanner]_vars

----------------------------------------------------------------------------
(* Graph notions the properties are stated with *)

\* The task list the planner call of the current input sorts.
InputGraph == GenerateTaskGraph(input)

\* y is listed as a dependency by a task object of id x.
DependsOn(tasks, x, y) ==
    \E i \in 1..Len(tasks) : tasks[i].id = x /\ y \in Range(tasks[i].dependencies)

RECURSIVE ReachFrom(_, _)
\* The node ids reachable from the ids of S along dependency entries (S included).
ReachFrom(tasks, S) ==
    IF \A x \in S : \A y \in NodeIds(tasks) : DependsOn(tasks, x, y) => y \in S
    THEN S
    ELSE ReachFrom(tasks, S \cup {y \in NodeIds(tasks) : \E x \in S : DependsOn(tasks, x, y)})

\* x lies on a dependency cycle: it reaches itself along one or more entries.
OnCycle(tasks, x) ==
    /\ x \in NodeIds(tasks)
    /\ \E y \in NodeIds(tasks) : DependsOn(tasks, x, y) /\ x \in ReachFrom(tasks, {y})

HasCycle(tasks) == \E x \in NodeIds(tasks) : OnCycle(tasks, x)

\* How often id occurs in the sequence s.
Occurrences(s, id) == Cardinality({i \in 1..Len(s) : s[i] = id})

Planned == pc = "planned"

PlannedOrder == Planned /\ planResult.status = "success"

----------------------------------------------------------------------------
(* Properties of the Topological Sequencer (SpecPlanner) *)

\* C1: when topologicalSort returns an order, every task of the order comes
\* after each of its dependencies that is the id of a node of the graph.  (The
\* task of an id is the entry of taskMap for it.)
C1_OrderValid ==
    PlannedOrder =>
        \A i \in 1..Len(planResult.executionOrder) :
            TaskMapHas(planResult.taskGraph, planResult.executionOrder[i]) =>
                \A d \in Range(TaskMapGet(planResult.taskGraph,
                                          planResult.executionOrder[i]).dependencies) :
                    TaskMapHas(planResult.taskGraph, d) =>
                        \E j \in 1..(i - 1) : planResult.executionOrder[j] = d

\* A sorted graph in which a task is listed before one of its dependencies, and
\* a task has two dependencies: the order has to differ from the list order.
C1_Witness ==
    /\ PlannedOrder
    /\ \E p, q \in 1..Len(planResult.taskGraph) :
          /\ p < q
          /\ planResult.taskGraph[q].id \in Range(planResult.taskGraph[p].dependencies)
          /\ IndexOf(planResult.executionOrder, planResult.taskGraph[q].id)
                < IndexOf(planResult.executionOrder, planResult.taskGraph[p].id)
    /\ \E p \in 1..Len(planResult.taskGraph) :
          Len(planResult.taskGraph[p].dependencies) = 2

\* C2: for a graph without a dependency cycle topologicalSort returns a total
\* order over the node ids: every node id exactly once, and no other id.
C2_TotalOrder ==
    (Planned /\ ~HasCycle(InputGraph)) =>
        /\ planResult.status = "success"
        /\ \A id \in NodeIds(InputGraph) : Occurrences(planResult.executionOrder, id) = 1
        /\ Range(planResult.executionOrder) \subseteq NodeIds(InputGraph)

\* C3: for a graph with a dependency cycle topologicalSort fails instead of
\* returning an order, and the error names a node that lies on a cycle.
C3_CycleNamed ==
    (Planned /\ HasCycle(InputGraph)) =>
        /\ planResult.status = "failed"
        /\ \E x \in NodeIds(InputGraph) :
              OnCycle(InputGraph, x) /\ x \in Range(planResult.error)

----------------------------------------------------------------------------
(* Properties of the Execution Supervisor (Spec) *)

\* The step is a call of executeSingleTask.
Dispatched == hist.ev = "dispatch"

\* The validation command of the latest call ran and exited non-zero or
\* reported failure.
ValidationBad ==
    /\ last.validationCommand # ""
    /\ \/ last.validation.status = "failed"
       \/ last.validation.payload /\ last.validation.exitCode # 0

\* C4: when executeSingleTask is called for a task, every dependency id of the
\* task that is the id of a node of the graph is in completedTasks.
C4_DependencyGating ==
    [][hist'.ev = "dispatch" =>
          \A d \in Range(Top.tasks[Top.i].dependencies) :
              TaskMapHas(Top.tasks, d) => d \in Top.completedTasks]_vars

\* A synthesized top-level graph whose dispatched task has a dependency that
\* is a node of the graph.
C4_Witness ==
    /\ Dispatched /\ Len(stack) = 1 /\ input.synth.kind = "array"
    /\ \E d \in Range(Top.tasks[last.index].dependencies) : TaskMapHas(Top.tasks, d)

\* C5: a task with a validationCommand whose primary action did not fail but
\* whose validation exits non-zero or reports failure is not counted as
\* completed: the loop is in the catch block of this task, where recovery is
\* attempted.
C5_ValidationOverrides ==
    (Dispatched /\ ValidationBad /\ last.primary.status # "failed") =>
        /\ Top.phase = "catch"
        /\ Top.i = last.index
        /\ Top.tasks[Top.i].id = last.id
        /\ last.id \notin Top.completedTasks

\* The primary action reported success with exit code 0, the validation
\* reported success with a non-zero exit code.
C5_Witness ==
    /\ Dispatched
    /\ last.primaryCommand # last.validationCommand
    /\ last.primary = [status |-> "success", payload |-> TRUE, exitCode |-> 0]
    /\ last.validation = [status |-> "success", payload |-> TRUE, exitCode |-> 1]
    /\ Top.phase = "catch"

\* C6: whenever the primary action of a task reports failure, the task is
\* treated as failed: the loop is in the catch block of this task, where the
\* Recovery Planner is called.
C6_PrimaryFailureRecovers ==
    (Dispatched /\ last.primary.status = "failed") =>
        /\ Top.phase = "catch"
        /\ Top.i = last.index

\* C7: a run in which exactly one task failed and one recovery sub-graph ran
\* to its end reports success.
C7_RecoveredRunSucceeds ==
    (pc = "done" /\ hist.nFail = 1 /\ hist.nRecovered = 1) => reply = SuccessReply

\* Such a run in which the top-level graph went on after the recovery: its
\* latest task call is a later task of the top-level graph.
C7_Witness ==
    /\ pc = "done" /\ hist.nFail = 1 /\ hist.nRecovered = 1
    /\ reply = SuccessReply
    /\ last.depth = 1 /\ last.index > 1

\* C8: when the recovery sub-graph of a failed task of the top-level graph
\* fails, the run reports failure and the error is the TaskFailed error of
\* that top-level task.
C8_FailedRecoveryFailsRun ==
    (pc = "done" /\ hist.topFailed # "") =>
        /\ Len(reply) >= 4
        /\ SubSeq(reply, 1, 4) =
              <<"Execution failed:", "Task", hist.topFailed,
                "failed and recovery was unsuccessful:">>

\* A failed run whose last task call was in a sub-graph nested twice.
C8_Witness ==
    /\ pc = "done" /\ hist.topFailed # ""
    /\ last.depth = 3

\* The request is routed to external synthesis, which answers [].
EmptySynthesis ==
    /\ input.strategy \in {"generic", "complex_modification"}
    /\ input.synth = [kind |-> "array", tasks |-> <<>>]

C10_EmptyGraphFails ==
    (pc # "start" /\ planResult.status = "success" /\ Len(planResult.taskGraph) = 0) =>
        /\ pc = "done"
        /\ stack = <<>>
        /\ ~last.dispatched
        /\ reply = <<"Failed to generate a valid plan. Error:", "Unknown planning error">>

\* A command-sequence request that splits into no step.
C10_Witness ==
    /\ pc = "done"
    /\ input.strategy = "command_sequence" /\ input.steps = <<>>
    /\ planResult.status = "success" /\ Len(planResult.taskGraph) = 0

----------------------------------------------------------------------------
(* Properties of the critical path (SpecPlanner) *)

\* The largest member of a non-empty set of numbers.
SetMax(S) == Bind(S, LAMBDA T : CHOOSE m \in T : \A x \in T : x <= m)

RECURSIVE NodeDepth(_, _)
\* The depth of the node of an id: 0 without dependencies, else one more than
\* the largest depth of a dependency (an id that names no node counts as 0).
NodeDepth(tasks, id) ==
    IF ~TaskMapHas(tasks, id) \/ TaskMapGet(tasks, id).dependencies = <<>>
    THEN 0
    ELSE 1 + SetMax({NodeDepth(tasks, d) : d \in Range(TaskMapGet(tasks, id).dependencies)})

\* The largest depth of a node of the graph; -1 for the graph without nodes.
MaxNodeDepth(tasks) == SetMax({-1} \cup {NodeDepth(tasks, id) : id \in NodeIds(tasks)})

\* C11: for every graph the planner sorts, the critical path it returns has
\* length (largest node depth) + 1, and never more entries than the graph has
\* nodes.
C11_CriticalPathLength ==
    PlannedOrder =>
        /\ Len(planResult.criticalPath) = MaxNodeDepth(planResult.taskGraph) + 1
        /\ Len(planResult.criticalPath) <= Len(planResult.taskGraph)

----------------------------------------------------------------------------
(* Properties of the Execution Supervisor's error handling (Spec) *)

\* C12: once the dependency check of executeTaskGraph has found an uncompleted
\* dependency, no task is dispatched any more and the recovery planner is not
\* called: the Error travels up through every activation and the run ends with
\* the failure reply.
C12_UnmetAborts ==
    hist.unmet =>
        /\ hist.ev \in {"unmet", "catch"}
        /\ pc = "running" => exc.thrown
        /\ pc = "done" => /\ stack = <<>>
                          /\ Len(reply) > 0 /\ reply[1] = "Execution failed:"

\* The dependency check failed inside a recovery sub-graph and the run is over.
C12_Witness ==
    /\ hist.unmet /\ pc = "done"
    /\ hist.topFailed # ""

\* C13: when topologicalSort reports a cycle for the graph of a plan, the plan
\* is dropped as it is: for the top-level plan the run ends with the
\* planning-failure reply and nothing is dispatched; for a recovery plan no
\* sub-graph is started, attemptRecovery returns false and the Error of the
\* failed task is what follows.  No second call of the planner is made.
C13_CycleNotRepaired ==
    [][/\ (hist'.ev = "plan" /\ TopologicalSort(InputGraph).err) =>
            /\ pc' = "done" /\ stack' = <<>> /\ ~last'.dispatched
            /\ reply' = <<"Failed to generate a valid plan. Error:",
                          "Circular dependency detected">>
       /\ (hist'.ev = "recover" /\ hist'.call.cycle) =>
            /\ stack' = stack
            /\ exc' = Throw(TaskFailedMessage(Top.tasks[Top.i], Top.error))
       /\ (hist.ev = "recover" /\ hist.call.cycle) => hist'.ev = "catch"]_vars

\* The plan of a recovery had a cycle and the run has ended in failure.
C13_Witness ==
    /\ pc = "done" /\ hist.call.cycle
    /\ Len(reply) > 0 /\ reply[1] = "Execution failed:"

----------------------------------------------------------------------------
(* Further properties of the Topological Sequencer (SpecPlanner) *)

\* Neither of the two node ids reaches the other along dependency entries.
Independent(tasks, x, y) ==
    /\ x # y
    /\ y \notin ReachFrom(tasks, {x})
    /\ x \notin ReachFrom(tasks, {y})

\* The node ids of the list are pairwise distinct.
DistinctIds(tasks) == \A i, j \in 1..Len(tasks) : tasks[i].id = tasks[j].id => i = j

\* Every dependency entry is the id of a node of the list.
NoDangling(tasks) ==
    \A i \in 1..Len(tasks) : Range(tasks[i].dependencies) \subseteq NodeIds(tasks)

\* C14: in the order topologicalSort returns, two independent nodes stand in
\* the order in which the task list holds them (stated for the lists whose ids
\* are pairwise distinct and whose dependencies all name nodes).
C14_StableOrder ==
    (PlannedOrder /\ DistinctIds(planResult.taskGraph) /\ NoDangling(planResult.taskGraph)) =>
        \A i, j \in 1..Len(planResult.taskGraph) :
            (i < j /\ Independent(planResult.taskGraph, planResult.taskGraph[i].id,
                                  planResult.taskGraph[j].id))
            => IndexOf(planResult.executionOrder, planResult.taskGraph[i].id)
                  < IndexOf(planResult.executionOrder, planResult.taskGraph[j].id)

----------------------------------------------------------------------------
(* Properties of recovery (Spec) *)

\* C15: when the recovery sub-graph of a failed top-level task is a single
\* node without dependencies and it has run to its end, that node is recorded
\* as completed and the failed task as failed; the failed task is not put
\* among the completed tasks of its graph.
C15_FailedStaysFailed ==
    [][(/\ hist'.ev = "return" /\ Len(stack) = 2
        /\ Len(Top.tasks) = 1 /\ Top.tasks[1].dependencies = <<>>) =>
            /\ Top.tasks[1].status = "completed"
            /\ stack'[1].tasks[stack[1].i].status = "failed"
            /\ stack[1].tasks[stack[1].i].id \notin stack'[1].completedTasks]_vars

\* C16: the node ids of a recovery sub-graph are fresh: none of them is the
\* id of a node of the graph whose failed task the recovery was planned for.
C16_FreshRecoveryIds ==
    \A k \in 2..Len(stack) :
        NodeIds(stack[k].tasks) \cap NodeIds(stack[k - 1].tasks) = {}

----------------------------------------------------------------------------
(* Properties of the Graph Builder (SpecPlanner) *)

\* C17: the node ids of every graph the planner builds are pairwise distinct,
\* the graphs parsed from a synthesis response included.
C17_DistinctIds ==
    Planned => DistinctIds(InputGraph)

\* C18: in every graph built from a synthesis response, each dependency entry
\* of each node is the id of a node of the graph, and a response with an
\* entry that names no node is still planned.
C18_NoDanglingDependency ==
    (Planned /\ input.synth.kind = "array") =>
        /\ NoDangling(InputGraph)
        /\ ~TopologicalSort(InputGraph).err => planResult.status = "success"

----------------------------------------------------------------------------
(* Properties of the recovery attempts (Spec) *)

\* The latest step was a call of executeSingleTask that threw.
TaskJustFailed ==
    /\ Dispatched /\ pc = "running" /\ ~exc.thrown
    /\ Top.phase = "catch"

NoRecoveryPlan ==
    /\ hist.call.status # "none"
    /\ ~(hist.call.status = "success" /\ hist.call.size > 0)

\* The task of the top-level graph the run fails for.
TopFailedId == IF hist.topFailed # "" THEN hist.topFailed ELSE hist.call.id

\* C20: when the recovery planner gives no usable plan for a failed task, no
\* sub-graph is started and the Error 'Task <id> failed and recovery was
\* unsuccessful' is thrown for that task; from then on nothing is dispatched,
\* the planner is not called again, and the run ends with the failure reply.
C20_NoPlanFailsRun ==
    /\ [][(hist'.ev = "recover" /\ NoRecoveryPlan') =>
             /\ stack' = stack
             /\ exc' = Throw(TaskFailedMessage(Top.tasks[Top.i], Top.error))]_vars
    /\ [](NoRecoveryPlan =>
             /\ hist.ev \in {"recover", "catch"}
             /\ pc = "running" => exc.thrown
             /\ pc = "done" =>
                   /\ Len(reply) >= 4
                   /\ SubSeq(reply, 1, 4) = <<"Execution failed:", "Task", TopFailedId,
                                              "failed and recovery was unsuccessful:">>)

\* The recovery planner returned a plan without tasks, and the run is over.
C20_Witness ==
    /\ pc = "done" /\ NoRecoveryPlan
    /\ hist.call.status = "success" /\ hist.call.size = 0

----------------------------------------------------------------------------
(* Properties of executeSingleTask and of the dispatch sequence (Spec) *)

\* The task of the latest call of executeSingleTask (right after the call).
LastTask == Top.tasks[last.index]

\* How many calls of the Executor ran the validation command in the latest
\* call of executeSingleTask: the VERIFY call, and the call made in place of
\* the task's action when the task has no command of its own.
ValidationRuns ==
    (IF last.validationCommand # "" THEN 1 ELSE 0)
    + (IF /\ LastTask.command = "" /\ LastTask.type # "command"
          /\ last.primaryCommand # "" /\ last.primaryCommand = last.validationCommand
       THEN 1 ELSE 0)

\* C21: in a call of executeSingleTask every side-effecting command is run
\* exactly once: a task with a validation command has it run once.
C21_CommandsOnce ==
    (Dispatched /\ last.validationCommand # "") => ValidationRuns = 1

\* C22: the supervisor goes through the tasks of the top-level graph in the
\* execution order topologicalSort computed for it: the task its loop takes
\* up at its i-th turn (for the dependency check and the dispatch) is the i-th
\* entry of the order.  (Stated for graphs whose ids are pairwise distinct and
\* whose dependencies all name nodes.)
C22_DispatchInExecutionOrder ==
    [][(/\ hist'.ev \in {"dispatch", "unmet"} /\ Len(stack) = 1
        /\ DistinctIds(Top.tasks) /\ NoDangling(Top.tasks)) =>
            /\ Top.i <= Len(planResult.executionOrder)
            /\ Top.tasks[Top.i].id = planResult.executionOrder[Top.i]]_vars

\* C23: once the caller has asked for cancellation, the task in flight ends
\* as usual and no further task is dispatched.
C23_CancelStopsDispatch ==
    [][hist.cancel => hist'.ev # "dispatch"]_vars

\* C24: the nesting of recoveries is bounded through retryCount, which counts
\* the recovery attempts made for a task: after a call of attemptRecovery for
\* a task, the task's retryCount is at least 1.
C24_RetryCountCounts ==
    [][hist'.ev = "recover" => stack'[Len(stack)].tasks[Top.i].retryCount >= 1]_vars

----------------------------------------------------------------------------
(* Further properties of the critical path and of the templates (SpecPlanner) *)

\* path is a dependency chain of the graph from a node without dependencies
\* to a node of the largest depth.
IsCriticalChain(tasks, path) ==
    /\ Len(path) >= 1
    /\ \A k \in 1..Len(path) : TaskMapHas(tasks, path[k])
    /\ \A k \in 2..Len(path) : path[k - 1] \in Range(TaskMapGet(tasks, path[k]).dependencies)
    /\ TaskMapGet(tasks, path[1]).dependencies = <<>>
    /\ NodeDepth(tasks, path[Len(path)]) = MaxNodeDepth(tasks)

\* C25: the critical path the planner returns is a dependency chain: each
\* element after the first lists the one before it among its dependencies, the
\* first element is a node without dependencies, and the last one is a node of
\* the largest depth.
C25_CriticalPathIsChain ==
    PlannedOrder => IsCriticalChain(planResult.taskGraph, planResult.criticalPath)

\* The graph of the current input comes from a template: the request is not
\* routed to synthesis, or the synthesis gave no task and the generic template
\* stands in.
TemplateBuilt == input.synth.kind # "array" \/ Len(input.synth.tasks) = 0

\* Every dependency entry is the id of a node that stands earlier in the list.
DependenciesPointBack(tasks) ==
    \A i \in 1..Len(tasks) : \A d \in Range(tasks[i].dependencies) :
        \E j \in 1..(i - 1) : tasks[j].id = d

\* C26: a graph built by a template has pairwise distinct node ids and every
\* dependency of a node is the id of a node created earlier in the list; the
\* graph has no cycle and is planned.
C26_TemplatesWellFormed ==
    (Planned /\ TemplateBuilt) =>
        /\ DistinctIds(InputGraph)
        /\ DependenciesPointBack(InputGraph)
        /\ ~HasCycle(InputGraph)
        /\ planResult.status = "success" /\ planResult.taskGraph = InputGraph

\* A scaffold graph with resources and components, whose tasks depend on
\* earlier ones.
C26_Witness ==
    /\ Planned /\ TemplateBuilt
    /\ input.strategy = "scaffold" /\ input.nResources > 0 /\ input.nComponents > 0
    /\ \E i \in 1..Len(InputGraph) : Len(InputGraph[i].dependencies) > 0

----------------------------------------------------------------------------
(* Properties of the supervisor's progress through a graph (Spec) *)

\* C27: while the supervisor runs a graph that topologicalSort accepted, its
\* dependency check never fails (stated for the graphs whose ids are pairwise
\* distinct and whose dependencies all name nodes).
C27_NoDependencyUnmet ==
    (pc = "running" /\ DistinctIds(Top.tasks) /\ NoDangling(Top.tasks)) =>
        hist.ev # "unmet"

\* C28: when the recovery sub-graph of a failed task has run to its end, the
\* parent graph goes on with its next task and the failed task counts as a
\* completed dependency: a dependency check that fails right afterwards fails
\* for another dependency.
C28_RecoveredTaskSatisfies ==
    [][/\ (hist'.ev = "return" /\ Len(stack) >= 2) =>
            /\ pc' = "running" /\ ~exc'.thrown
            /\ stack'[Len(stack) - 1].phase = "loop"
            /\ stack'[Len(stack) - 1].i = stack[Len(stack) - 1].i + 1
            /\ stack[Len(stack) - 1].tasks[stack[Len(stack) - 1].i].id
                  \in stack'[Len(stack) - 1].completedTasks
       /\ (hist.ev = "return" /\ pc = "running" /\ hist'.ev = "unmet") =>
            \E d \in Range(Top.tasks[Top.i].dependencies) :
                /\ d # Top.tasks[Top.i - 1].id
                /\ TaskMapHas(Top.tasks, d) /\ d \notin Top.completedTasks]_vars

\* A task that depends on the failed and recovered task has been dispatched.
C28_Witness ==
    /\ Dispatched /\ last.depth = 1 /\ last.index > 1
    /\ hist.nFail = 1 /\ hist.nRecovered = 1
    /\ hist.call.id = Top.tasks[last.index - 1].id
    /\ hist.call.id \in Range(LastTask.dependencies)

\* The Error in flight is the one executeTaskGraph throws for a task whose
\* recovery did not work.
UnrecoveredFailure ==
    /\ exc.thrown /\ Len(exc.message) >= 3
    /\ exc.message[1] = "Task"
    /\ exc.message[3] = "failed and recovery was unsuccessful:"

\* C29: from the first task failure whose recovery did not work, no task is
\* dispatched any more, in the task's graph or in an enclosing one, and the
\* planner is not called: every activation is left through its Error in turn,
\* the run ends with the failure reply, and nothing happens after the reply.
C29_UnrecoveredFailureStops ==
    [][/\ UnrecoveredFailure =>
            /\ hist'.ev = "catch" /\ last' = last
            /\ Len(stack') = Len(stack) - 1
            /\ pc' = "running" => UnrecoveredFailure'
            /\ pc' = "done" => Len(reply') > 0 /\ reply'[1] = "Execution failed:"
       /\ pc # "done"]_vars

\* A task of a recovery sub-graph failed without recovery, and the top-level
\* graph still had tasks after the one under recovery.
C29_Witness ==
    /\ pc = "done" /\ hist.topFailed # ""
    /\ last.depth >= 2
    /\ \E i \in 1..(Len(planResult.taskGraph) - 1) :
          planResult.taskGraph[i].id = hist.topFailed

\* C30: each activation of executeTaskGraph has a completion record of its
\* own.  While a recovery sub-graph runs, the record of every enclosing graph
\* stays as it is, whatever ids the sub-graph completes; the one change comes
\* when the whole sub-graph has run to its end, and it adds the id of the
\* failed task to the record of the graph that holds it.
C30_SeparateCompletionRecords ==
    [][\A k \in 1..(Len(stack) - 1) :
          k <= Len(stack') =>
              \/ stack'[k].completedTasks = stack[k].completedTasks
              \/ /\ k = Len(stack) - 1 /\ Len(stack') = k
                 /\ hist'.ev = "return"
                 /\ Top.phase = "loop" /\ Top.i > Len(Top.tasks)
                 /\ stack'[k].completedTasks
                       = stack[k].completedTasks \cup {stack[k].tasks[stack[k].i].id}]_vars

\* A recovery sub-graph has completed a node whose id is also the id of a
\* node of the parent graph that is not completed there.
C30_Witness ==
    /\ pc = "running" /\ Len(stack) = 2
    /\ \E id \in Top.completedTasks :
          TaskMapHas(stack[1].tasks, id) /\ id \notin stack[1].completedTasks

====
